---- MODULE Spec2Model ----
(***************************************************************************)
(* Model of csep561.net.spanning_tree_network.SpanningTreeNetwork: the     *)
(* link-discovery handler, the spanning-tree rebuild and the recursive     *)
(* MAC-location teaching.  The collaborators that live outside the file    *)
(* (the switch registry of Network, LldpSwitch.add_link, Link.get_reverse, *)
(* find_shortest_paths, learn_mac_location) are modelled from the design   *)
(* document.                                                               *)
(***************************************************************************)
EXTENDS Integers, Sequences, FiniteSets, TLC

\* Bounds of the model.
NumSwitches == 3
NumPorts == 2
NumMacs == 2
MaxLinks == 4
MaxTeach == 1

Dpids == 1..NumSwitches

\* One switch more than Dpids, so that the switches can be cabled into a ring
\* of even length: the smallest topology in which a switch has two neighbours
\* equally close to root.
RingDpids == 1..(NumSwitches + 1)
Ports == 1..NumPorts
Macs == 1..NumMacs

\* The ports a packet can come in on: the ports cables plug into, and one
\* more port on every switch that only hosts attach to.
InPorts == 1..(NumPorts + 1)

\* Python's None, for root, for a missing table entry and for "no predecessor".
None == 0

VARIABLES
  switches,    \* dpids of the connected switches (the registry behind _get_switch)
  linkObjs,    \* the Link instances, in creation order: [sw, port, switch, remote_port, active]
  links,       \* links[d]: switch d's list of its Link instances, in discovery order
  root,        \* self.root: a dpid, or None
  mac_table,   \* mac_table[d][m]: the port switch d learned for MAC m, or None
  seen,        \* history: dpids named by a successfully processed link-discovery event
  err,         \* the exception the last handler raised, or "none"
  nteach       \* number of unknown-packet-source events processed so far

vars == <<switches, linkObjs, links, root, mac_table, seen, err, nteach>>

Min(S) == CHOOSE x \in S : \A y \in S : x <= y

----------------------------------------------------------------------------
\* Link and LldpSwitch (collaborators)

\* Link.get_reverse: Links are created in cross-linked pairs (2k-1, 2k).
get_reverse(l) == IF l % 2 = 1 THEN l + 1 ELSE l - 1

\* Network._get_switch: the registered switch, or None.
get_switch(sws, dpid) == IF dpid \in sws THEN dpid ELSE None

\* Does switch d already own a Link on local port p?
has_link(objs, lks, d, p) == \E k \in 1..Len(lks[d]) : objs[lks[d][k]].port = p

NewLink(d, p, r, rp) ==
  [sw |-> d, port |-> p, switch |-> r, remote_port |-> rp, active |-> FALSE]

\* Mutant of add_link: the Link and its reverse are created even when the
\* (switch, port) pair already has a Link.
add_link_always(objs, lks, d, p, r, rp) ==
  LET n == Len(objs)
      lks1 == [lks EXCEPT ![d] = Append(@, n + 1)]
  IN [objs |-> objs \o <<NewLink(d, p, r, rp), NewLink(r, rp, d, p)>>,
      lks  |-> [lks1 EXCEPT ![r] = Append(@, n + 2)]]

\* LldpSwitch.add_link: creates the Link and its reverse, both inactive, unless
\* the (switch, port) pair already has a Link.  Returns the new objects and lists.
add_link(objs, lks, d, p, r, rp) ==
  IF has_link(objs, lks, d, p)
  THEN [objs |-> objs, lks |-> lks]
  ELSE LET n == Len(objs)
           lks1 == [lks EXCEPT ![d] = Append(@, n + 1)]
       IN [objs |-> objs \o <<NewLink(d, p, r, rp), NewLink(r, rp, d, p)>>,
           lks  |-> [lks1 EXCEPT ![r] = Append(@, n + 2)]]

\* The events link discovery can deliver: a port is one end of at most one
\* cable, so an event that names a port without a Link names a free remote
\* port, other than itself, as well.
Wired(objs, lks, d, p, r, rp) ==
  has_link(objs, lks, d, p)
    \/ (~has_link(objs, lks, r, rp) /\ <<d, p>> # <<r, rp>>)

\* LldpSwitch.learn_mac_location: overwrite the binding of mac on the switch.
learn_mac_location(tab, d, mac, port) == [tab EXCEPT ![d][mac] = port]

----------------------------------------------------------------------------
\* find_shortest_paths (collaborator): hop-count shortest paths from source.
\* The result names, for every reachable node, the neighbour on its shortest
\* path back to source; among neighbours that are equally close the one whose
\* edge comes first in the node's own neighbour list wins.

\* Distance of a node nobody reaches.
Unreached == -1

\* Hop distances: dist is settled for every node within k hops of source,
\* frontier holds the nodes at exactly k hops.
RECURSIVE Distances(_, _, _, _)
Distances(neighbors, frontier, dist, k) ==
  LET next == {v \in DOMAIN dist :
                 /\ dist[v] = Unreached
                 /\ \E u \in frontier : \E i \in 1..Len(neighbors[u]) :
                      neighbors[u][i] = v}
  IN IF next = {} THEN dist
     ELSE Distances(neighbors, next,
            [v \in DOMAIN dist |-> IF v \in next THEN k + 1 ELSE dist[v]], k + 1)

\* The first neighbour of the list that is one hop closer to source than d.
RECURSIVE FirstCloser(_, _, _, _)
FirstCloser(nbrs, i, dist, d) ==
  IF i > Len(nbrs) THEN None
  ELSE IF dist[nbrs[i]] # Unreached /\ dist[nbrs[i]] + 1 = d THEN nbrs[i]
  ELSE FirstCloser(nbrs, i + 1, dist, d)

find_shortest_paths(source, names, neighbors) ==
  LET dist == Distances(neighbors, {source},
                [n \in names |-> IF n = source THEN 0 ELSE Unreached], 0)
  IN [n \in names |->
        IF n = source \/ dist[n] = Unreached THEN None
        ELSE FirstCloser(neighbors[n], 1, dist, dist[n])]

----------------------------------------------------------------------------
\* _rebuild_spanning_tree

\* Lines 35-46: the list of switches transitively linked to start.
RECURSIVE Sweep(_, _, _, _, _)
Sweep(objs, lks, sws, added, i) ==
  IF i > Len(sws) THEN sws
  ELSE LET switch == sws[i]
           added1 == added \cup {switch}
           flt    == SelectSeq(lks[switch], LAMBDA x : objs[x].switch \notin added1)
       IN Sweep(objs, lks,
                sws \o [k \in 1..Len(flt) |-> objs[flt[k]].switch], added1, i + 1)

Range(s) == {s[k] : k \in 1..Len(s)}

\* Lines 49-52: the keys of nodes and each node's neighbour list.
NodeNames(objs, lks, start) == Range(Sweep(objs, lks, <<start>>, {}, 1))

\* Mutant of Neighbors: line 52 puts each neighbour in front of the list
\* instead of appending it.
NeighborsPrepended(objs, lks, names) ==
  [d \in names |->
     [k \in 1..Len(lks[d]) |-> objs[lks[d][Len(lks[d]) + 1 - k]].switch]]

Neighbors(objs, lks, names) ==
  [d \in names |-> [k \in 1..Len(lks[d]) |-> objs[lks[d][k]].switch]]

\* Line 54.
Paths(objs, lks, start) ==
  LET names == NodeNames(objs, lks, start)
  IN find_shortest_paths(start, names, Neighbors(objs, lks, names))

\* Mutant of ActivatePair: line 68 (reverse.activate()) is missing.
ActivateLinkOnly(objs, l) ==
  [objs EXCEPT ![l].active = TRUE]

\* Lines 67-68: activate both directions of the link.
ActivatePair(objs, l) ==
  [objs EXCEPT ![l].active = TRUE, ![get_reverse(l)].active = TRUE]

\* Mutant of ClassifyLinks: lines 75-76 (the two discards) are missing.
RECURSIVE ClassifyLinksNoDiscard(_, _, _, _)
ClassifyLinksNoDiscard(lseq, k, bestName, st) ==
  IF k > Len(lseq) THEN st
  ELSE LET link    == lseq[k]
           reverse == get_reverse(link)
       IN IF st.objs[link].switch = bestName
          THEN ClassifyLinksNoDiscard(lseq, k + 1, bestName,
                 [objs |-> [st.objs EXCEPT ![link].active = TRUE,
                                          ![reverse].active = TRUE],
                  best_links |-> st.best_links \cup {link, reverse},
                  links_to_deactivate |-> st.links_to_deactivate])
          ELSE IF link \notin st.best_links /\ reverse \notin st.best_links
          THEN ClassifyLinksNoDiscard(lseq, k + 1, bestName,
                 [st EXCEPT !.links_to_deactivate = @ \cup {link, reverse}])
          ELSE ClassifyLinksNoDiscard(lseq, k + 1, bestName, st)

\* Mutant of ClassifyLinks: the test of line 77 is missing, so every Link that
\* does not lead to the best neighbour is put on the list to deactivate.
RECURSIVE ClassifyLinksNoBestTest(_, _, _, _)
ClassifyLinksNoBestTest(lseq, k, bestName, st) ==
  IF k > Len(lseq) THEN st
  ELSE LET link    == lseq[k]
           reverse == get_reverse(link)
       IN IF st.objs[link].switch = bestName
          THEN ClassifyLinksNoBestTest(lseq, k + 1, bestName,
                 [objs |-> [st.objs EXCEPT ![link].active = TRUE,
                                          ![reverse].active = TRUE],
                  best_links |-> st.best_links \cup {link, reverse},
                  links_to_deactivate |-> st.links_to_deactivate \ {link, reverse}])
          ELSE ClassifyLinksNoBestTest(lseq, k + 1, bestName,
                 [st EXCEPT !.links_to_deactivate = @ \cup {link, reverse}])

\* Lines 63-81: classify the links of one switch whose best neighbour is bestName.
RECURSIVE ClassifyLinks(_, _, _, _)
ClassifyLinks(lseq, k, bestName, st) ==
  IF k > Len(lseq) THEN st
  ELSE LET link    == lseq[k]
           reverse == get_reverse(link)
       IN IF st.objs[link].switch = bestName
          THEN ClassifyLinks(lseq, k + 1, bestName,
                 [objs |-> ActivatePair(st.objs, link),
                  best_links |-> st.best_links \cup {link, reverse},
                  links_to_deactivate |-> st.links_to_deactivate \ {link, reverse}])
          ELSE IF link \notin st.best_links /\ reverse \notin st.best_links
          THEN ClassifyLinks(lseq, k + 1, bestName,
                 [st EXCEPT !.links_to_deactivate = @ \cup {link, reverse}])
          ELSE ClassifyLinks(lseq, k + 1, bestName, st)

\* Lines 59-81: the loop over paths.viewitems(), visited in the given order.
RECURSIVE ClassifyNodes(_, _, _, _, _)
ClassifyNodes(order, i, paths, lks, st) ==
  IF i > Len(order) THEN st
  ELSE LET node_name == order[i]
           best      == paths[node_name]
       IN IF best = None
          THEN ClassifyNodes(order, i + 1, paths, lks, st)
          ELSE ClassifyNodes(order, i + 1, paths, lks,
                 ClassifyLinks(lks[node_name], 1, best, st))

\* Mutant of DeactivateAll: lines 84-85 are missing.
DeactivateNone(objs, S) == objs

\* Lines 84-85.
DeactivateAll(objs, S) ==
  [l \in 1..Len(objs) |->
     IF l \in S THEN [objs[l] EXCEPT !.active = FALSE] ELSE objs[l]]

\* The orders in which a dict may yield the given keys.
RECURSIVE Orders(_)
Orders(S) ==
  IF S = {} THEN {<<>>}
  ELSE UNION {{<<x>> \o o : o \in Orders(S \ {x})} : x \in S}

\* Mutant of ApplyPaths: every Link of the network is cleared before the best
\* links are activated.
ApplyPathsClearAll(objs, lks, paths, order) ==
  LET st == ClassifyNodes(order, 1, paths, lks,
              [objs |-> DeactivateAll(objs, 1..Len(objs)),
               best_links |-> {}, links_to_deactivate |-> {}])
  IN DeactivateAll(st.objs, st.links_to_deactivate)

\* Lines 56-85: the Link instances after the two loops, for one order of paths.
ApplyPaths(objs, lks, paths, order) ==
  LET st == ClassifyNodes(order, 1, paths, lks,
              [objs |-> objs, best_links |-> {}, links_to_deactivate |-> {}])
  IN DeactivateAll(st.objs, st.links_to_deactivate)

\* Lines 34-85 for a start that is a switch: what the rebuild may leave
\* behind, over every iteration order of the dict paths.
\* (An item of paths whose best is None is skipped at lines 60-61, so only the
\* order of the other items is enumerated.)
rebuild_spanning_tree(objs, lks, start) ==
  LET paths == Paths(objs, lks, start)
  IN {ApplyPaths(objs, lks, paths, order) :
        order \in Orders({n \in DOMAIN paths : paths[n] # None})}

----------------------------------------------------------------------------
\* _teach_mac_location.  A call is determined by (switch, port); when a call
\* recurs inside itself the Python recursion never returns and ends in a
\* RuntimeError (recursion depth exceeded), reported here as ok = FALSE.

RECURSIVE teach_mac_location(_, _, _, _, _, _, _)
RECURSIVE TeachLinks(_, _, _, _, _, _, _)

\* Mutant of TeachLinks: the loop of lines 97-98 returns after the first
\* active link it follows.
TeachLinksFirstOnly(objs, lks, flt, k, mac, stack, tab) ==
  IF k > Len(flt) THEN [tab |-> tab, ok |-> TRUE]
  ELSE LET link == flt[k]
       IN teach_mac_location(objs, lks, objs[link].switch, mac,
                             objs[get_reverse(link)].port, stack, tab)

\* Mutant of teach_mac_location: the filter of line 97 does not test
\* is_active(), so the binding is passed on over inactive Links too.
TeachOverAllLinks(objs, lks, switch, mac, port, stack, tab) ==
  IF <<switch, port>> \in stack
  THEN [tab |-> tab, ok |-> FALSE]
  ELSE LET tab1 == learn_mac_location(tab, switch, mac, port)
           flt  == SelectSeq(lks[switch], LAMBDA x : objs[x].port # port)
       IN TeachLinks(objs, lks, flt, 1, mac, stack \cup {<<switch, port>>}, tab1)

teach_mac_location(objs, lks, switch, mac, port, stack, tab) ==
  IF <<switch, port>> \in stack
  THEN [tab |-> tab, ok |-> FALSE]
  ELSE LET tab1 == learn_mac_location(tab, switch, mac, port)
           flt  == SelectSeq(lks[switch],
                             LAMBDA x : objs[x].port # port /\ objs[x].active)
       IN TeachLinks(objs, lks, flt, 1, mac, stack \cup {<<switch, port>>}, tab1)

TeachLinks(objs, lks, flt, k, mac, stack, tab) ==
  IF k > Len(flt) THEN [tab |-> tab, ok |-> TRUE]
  ELSE LET link == flt[k]
           r == teach_mac_location(objs, lks, objs[link].switch, mac,
                                   objs[get_reverse(link)].port, stack, tab)
       IN IF r.ok THEN TeachLinks(objs, lks, flt, k + 1, mac, stack, r.tab)
          ELSE r

----------------------------------------------------------------------------
\* State machine

Init ==
  /\ switches = {}
  /\ linkObjs = <<>>
  /\ links = [d \in RingDpids |-> <<>>]
  /\ root = None
  /\ mac_table = [d \in RingDpids |-> [m \in Macs |-> None]]
  /\ seen = {}
  /\ err = "none"
  /\ nteach = 0

\* Network: a switch connects and is registered.
ConnectionUp(d) ==
  /\ d \notin switches
  /\ switches' = switches \cup {d}
  /\ err' = "none"
  /\ UNCHANGED <<linkObjs, links, root, mac_table, seen, nteach>>

\* Mutant of NewRoot: lines 121-122 (the remote switch) are missing.
NewRootLocalOnly(r, local, remote) ==
  IF r = None \/ local < r THEN local ELSE r

\* Mutant of NewRoot: line 119 sets root only while it is None.
NewRootFirstOnly(r, local, remote) ==
  LET r1 == IF r = None THEN local ELSE r
  IN IF remote < r1 THEN remote ELSE r1

\* Mutant of NewRoot: line 119 does not compare the local switch with root
\* and always assigns it.
NewRootLatest(r, local, remote) ==
  IF remote < local THEN remote ELSE local

\* Lines 118-122.
NewRoot(r, local, remote) ==
  LET r1 == IF r = None \/ local < r THEN local ELSE r
  IN IF remote < r1 THEN remote ELSE r1

\* Mutant of LinkDiscoveryEvent: lines 111-112 (the check of the remote switch)
\* are missing, so a Link to an unregistered switch is recorded.
LinkDiscoveryNoRemoteCheck(ldpid, local_port, remote_dpid, remote_port) ==
  LET local_switch == get_switch(switches, ldpid)
  IN IF local_switch = None
     THEN /\ err' = "Exception"
          /\ UNCHANGED <<switches, linkObjs, links, root, mac_table, seen, nteach>>
     ELSE LET a  == add_link(linkObjs, links, local_switch, local_port,
                             remote_dpid, remote_port)
              r1 == NewRoot(root, local_switch, remote_dpid)
          IN /\ Len(a.objs) <= 2 * MaxLinks
             /\ Wired(linkObjs, links, local_switch, local_port,
                      remote_dpid, remote_port)
             /\ root' = r1
             /\ links' = a.lks
             /\ linkObjs' \in rebuild_spanning_tree(a.objs, a.lks, r1)
             /\ seen' = seen \cup {local_switch, remote_dpid}
             /\ err' = "none"
             /\ UNCHANGED <<switches, mac_table, nteach>>

\* Mutant of LinkDiscoveryEvent: a successful event also forgets every MAC
\* location learned so far.
LinkDiscoveryFlushTables(ldpid, local_port, remote_dpid, remote_port) ==
  LET local_switch  == get_switch(switches, ldpid)
      remote_switch == get_switch(switches, remote_dpid)
  IN IF local_switch = None \/ remote_switch = None
     THEN /\ err' = "Exception"
          /\ UNCHANGED <<switches, linkObjs, links, root, mac_table, seen, nteach>>
     ELSE LET a  == add_link(linkObjs, links, local_switch, local_port,
                             remote_switch, remote_port)
              r1 == NewRoot(root, local_switch, remote_switch)
          IN /\ Len(a.objs) <= 2 * MaxLinks
             /\ Wired(linkObjs, links, local_switch, local_port,
                      remote_switch, remote_port)
             /\ root' = r1
             /\ links' = a.lks
             /\ linkObjs' \in rebuild_spanning_tree(a.objs, a.lks, r1)
             /\ seen' = seen \cup {local_switch, remote_switch}
             /\ err' = "none"
             /\ mac_table' = [d \in RingDpids |-> [m \in Macs |-> None]]
             /\ UNCHANGED <<switches, nteach>>

\* _handle_switch_LinkDiscoveryEvent
LinkDiscoveryEvent(ldpid, local_port, remote_dpid, remote_port) ==
  LET local_switch  == get_switch(switches, ldpid)
      remote_switch == get_switch(switches, remote_dpid)
  IN IF local_switch = None \/ remote_switch = None
     THEN /\ err' = "Exception"
          /\ UNCHANGED <<switches, linkObjs, links, root, mac_table, seen, nteach>>
     ELSE LET a  == add_link(linkObjs, links, local_switch, local_port,
                             remote_switch, remote_port)
              r1 == NewRoot(root, local_switch, remote_switch)
          IN /\ Len(a.objs) <= 2 * MaxLinks
             /\ Wired(linkObjs, links, local_switch, local_port,
                      remote_switch, remote_port)
             /\ root' = r1
             /\ links' = a.lks
             /\ linkObjs' \in rebuild_spanning_tree(a.objs, a.lks, r1)
             /\ seen' = seen \cup {local_switch, remote_switch}
             /\ err' = "none"
             /\ UNCHANGED <<switches, mac_table, nteach>>

\* _rebuild_spanning_tree() called with no start: start = self.root, and
\* None.links raises AttributeError before anything is written.
RebuildSpanningTree ==
  IF root = None
  THEN /\ err' = "AttributeError"
       /\ UNCHANGED <<switches, linkObjs, links, root, mac_table, seen, nteach>>
  ELSE /\ linkObjs' \in rebuild_spanning_tree(linkObjs, links, root)
       /\ err' = "none"
       /\ UNCHANGED <<switches, links, root, mac_table, seen, nteach>>

\* _handle_switch_UnknownPacketSourceEvent
UnknownPacketSourceEvent(switch, mac, in_port) ==
  /\ switch \in switches
  /\ nteach < MaxTeach
  /\ LET r == teach_mac_location(linkObjs, links, switch, mac, in_port, {}, mac_table)
     IN /\ mac_table' = r.tab
        /\ err' = IF r.ok THEN "none" ELSE "RuntimeError"
  /\ nteach' = nteach + 1
  /\ UNCHANGED <<switches, linkObjs, links, root, seen>>

Next ==
  \/ \E d \in Dpids : ConnectionUp(d)
  \/ \E ls, rs \in Dpids : \E lp, rp \in Ports : LinkDiscoveryEvent(ls, lp, rs, rp)
  \/ RebuildSpanningTree
  \/ \E s \in Dpids : \E m \in Macs : \E p \in InPorts : UnknownPacketSourceEvent(s, m, p)

Spec == Init /\ [][Next]_vars

\* The topology handlers alone (no packet-source events).
NextTopology ==
  \/ \E d \in Dpids : ConnectionUp(d)
  \/ \E ls, rs \in Dpids : \E lp, rp \in Ports : LinkDiscoveryEvent(ls, lp, rs, rp)
  \/ RebuildSpanningTree

SpecTopology == Init /\ [][NextTopology]_vars

\* The topology handlers on a ring: switch d's last port is cabled to the
\* first port of the next switch, the last switch's to the first switch's.
\* Either end of a cable may report it, in any order.
RingNext(d) == IF d = NumSwitches + 1 THEN 1 ELSE d + 1

RingEvents ==
  UNION {{<<d, NumPorts, RingNext(d), 1>>, <<RingNext(d), 1, d, NumPorts>>} :
           d \in RingDpids}

NextRing ==
  \/ \E d \in RingDpids : ConnectionUp(d)
  \/ \E e \in RingEvents : LinkDiscoveryEvent(e[1], e[2], e[3], e[4])
  \/ RebuildSpanningTree

SpecRing == Init /\ [][NextRing]_vars

----------------------------------------------------------------------------
\* Graph notions used by the properties

LinkIds == 1..Len(linkObjs)

\* One Link of every pair: the undirected edges.
Edges == {l \in LinkIds : l % 2 = 1}

EdgeActive(objs, l) == objs[l].active \/ objs[get_reverse(l)].active

\* The switches joined to S by known links (use = "known") or by active
\* links (use = "active"), never stepping out of a switch of the set avoid.
RECURSIVE ReachOver(_, _, _, _)
ReachOver(objs, S, use, avoid) ==
  LET T == S \cup {objs[l].switch : l \in
                    {k \in 1..Len(objs) : /\ objs[k].sw \in S \ avoid
                                          /\ (use = "active" => objs[k].active)}}
  IN IF T = S THEN S ELSE ReachOver(objs, T, use, avoid)

\* The connected component of switch d over all known links.
Component(objs, d) == ReachOver(objs, {d}, "known", {})

\* Active links with both directions in the component of root.
TreeEdges == {l \in Edges : /\ EdgeActive(linkObjs, l)
                            /\ linkObjs[l].sw \in Component(linkObjs, root)}

IsTree ==
  /\ ReachOver(linkObjs, {root}, "active", {}) = Component(linkObjs, root)
  /\ Cardinality(TreeEdges) = Cardinality(Component(linkObjs, root)) - 1

----------------------------------------------------------------------------
\* Properties

\* C1: after every successful link-discovery event the active links of the
\* component of root are connected and acyclic, with exactly n-1 undirected
\* active edges for its n switches.  (root is set exactly by such events, and
\* no other handler changes a Link.)
C1_ActiveLinksFormTree == root # None => IsTree

\* C2: every Link has the same active flag as its reverse.
C2_Symmetry ==
  \A l \in LinkIds : linkObjs[l].active = linkObjs[get_reverse(l)].active

\* C2 witness: a rebuild has activated one pair of Links and left another pair,
\* between two different switches, inactive.
C2_Witness ==
  /\ root # None
  /\ \E l \in LinkIds : linkObjs[l].active
  /\ \E l \in LinkIds : ~linkObjs[l].active /\ linkObjs[l].sw # linkObjs[l].switch

\* C3: once a link-discovery event has succeeded, root is the smallest dpid
\* among the switches named as local or remote endpoint by such events.
C3_RootIsMinOfSeen == seen # {} => root = Min(seen)

\* C3 witness: root is a switch that was only ever named as remote endpoint,
\* and it replaced a larger root.
C3_Witness ==
  /\ seen # {}
  /\ Cardinality(seen) >= 2
  /\ root = Min(seen)
  /\ \A l \in Edges : linkObjs[l].sw # root

\* The switches joined to s by active links.
ActiveReach(objs, s) == ReachOver(objs, {s}, "active", {})

\* The switches teach(s, mac, p) is to reach: s, and what active links join
\* to s other than through a Link of s on port p.
TaughtFrom(objs, s, p) ==
  {s} \cup ReachOver(objs,
            {objs[l].switch : l \in {k \in 1..Len(objs) :
                objs[k].sw = s /\ objs[k].active /\ objs[k].port # p}},
            "active", {s})

\* The local ports of the active Links of x that lead toward s.
Toward(objs, x, s) ==
  {objs[l].port : l \in {k \in 1..Len(objs) :
      /\ objs[k].sw = x
      /\ objs[k].active
      /\ s \in ReachOver(objs, {objs[k].switch}, "active", {x})}}

\* The tables after a completed teach(s, m, p) bind m as they should on the
\* switches of the set T.
TaughtToward(s, m, p, T) ==
  \A x \in T :
    IF x = s THEN mac_table'[x][m] = p
    ELSE mac_table'[x][m] \in Toward(linkObjs, x, s)

\* C4 as stated: after teach(S, mac, port) completes, for any port, every
\* switch joined to S by active links has an entry for mac: port on S, and on
\* every other switch the local port of its active link toward S.
C4_AllReachableTaught ==
  [][\A s \in Dpids : \A m \in Macs : \A p \in InPorts :
       (nteach' # nteach /\ err' = "none" /\ UnknownPacketSourceEvent(s, m, p))
         => TaughtToward(s, m, p, ActiveReach(linkObjs, s))]_vars

\* C4 amended: after teach(S, mac, port) completes, S's entry for mac is port,
\* and every switch joined to S by active links other than through a Link of
\* S on that port has an entry for mac: the local port of its active link
\* toward S.  (What lies behind a Link of S on port is not taught.)
C4_TaughtBeyondOtherPorts ==
  [][\A s \in Dpids : \A m \in Macs : \A p \in InPorts :
       (nteach' # nteach /\ err' = "none" /\ UnknownPacketSourceEvent(s, m, p))
         => TaughtToward(s, m, p, TaughtFrom(linkObjs, s, p))]_vars

\* C4 witness: the tables are those a completed teach(s, m, p) leaves in this
\* topology; it taught a switch other than s and, p being the port of an
\* active Link of s, left out a switch joined to s by active links.
C4_Witness ==
  /\ nteach = 1
  /\ err = "none"
  /\ \E s \in switches : \E m \in Macs : \E p \in InPorts :
       /\ mac_table = teach_mac_location(linkObjs, links, s, m, p, {},
                         [d \in RingDpids |-> [n \in Macs |-> None]]).tab
       /\ \E x \in TaughtFrom(linkObjs, s, p) : x # s /\ mac_table[x][m] # None
       /\ \E y \in ActiveReach(linkObjs, s) :
            y \notin TaughtFrom(linkObjs, s, p) /\ mac_table[y][m] = None

\* C5: a second rebuild from the same root, with no event in between, leaves
\* the active flags as the first rebuild left them, whatever order the
\* second one iterates in.
C5_RebuildIdempotent ==
  root # None => rebuild_spanning_tree(linkObjs, links, root) = {linkObjs}

\* C5 witness: the tree of root has an active link and a link between two
\* of its switches that the rebuild left inactive.
C5_Witness ==
  /\ root # None
  /\ \E l \in LinkIds : linkObjs[l].active /\ linkObjs[l].sw \in Component(linkObjs, root)
  /\ \E l \in LinkIds : /\ ~linkObjs[l].active
                         /\ linkObjs[l].sw # linkObjs[l].switch
                         /\ linkObjs[l].sw \in Component(linkObjs, root)

\* C6: a link-discovery event that names an unregistered switch raises and
\* changes nothing: no Link, no flag, no root, no table.
C6_UnknownEndpointNoChange ==
  [][\A ls, rs \in Dpids : \A lp, rp \in Ports :
       ((ls \notin switches \/ rs \notin switches)
          /\ LinkDiscoveryEvent(ls, lp, rs, rp))
       => /\ err' = "Exception"
          /\ UNCHANGED <<switches, linkObjs, links, root, mac_table, seen>>]_vars

\* C6 witness: the event failed in a network that has Links and a root.
C6_Witness == err = "Exception" /\ linkObjs # <<>> /\ root # None

\* C7: rebuild with no start while root is None completes without error and
\* changes nothing.
C7_RebuildWithoutRootIsNoOp ==
  [][(root = None /\ RebuildSpanningTree)
       => /\ err' = "none"
          /\ UNCHANGED <<switches, linkObjs, links, root, mac_table, seen>>]_vars

\* C8: a rebuild from root raises nothing and leaves every Link owned by a
\* switch outside the component of root as it was.
C8_OutsideComponentUntouched ==
  [][/\ (root # None /\ RebuildSpanningTree) => err' = "none"
     /\ (root' # None /\ err' = "none")
          => \A l \in LinkIds :
               linkObjs[l].sw \notin Component(linkObjs', root')
                 => linkObjs'[l] = linkObjs[l]]_vars

\* C8 witness: a rebuild from root has run while a switch outside the
\* component of root owns an active Link.
C8_Witness ==
  /\ root # None
  /\ err = "none"
  /\ \E l \in LinkIds : /\ linkObjs[l].active
                         /\ linkObjs[l].sw \notin Component(linkObjs, root)

\* C9: in every state teach terminates for every switch and every port.
C9_TeachTerminates ==
  \A s \in switches : \A m \in Macs : \A p \in InPorts :
    teach_mac_location(linkObjs, links, s, m, p, {}, mac_table).ok

\* C10 as stated: once a switch has connected, root is set and is the
\* smallest dpid among all switches seen, linked or not.
C10_RootIsMinOfConnected ==
  switches # {} => (root # None /\ root = Min(switches))

\* C10 amended: root is None exactly until the first link-discovery event
\* succeeds, whatever switches have connected; from then on it is a connected
\* switch and no switch named by such an event has a smaller dpid.
C10_RootIsMinOfLinked ==
  /\ root = None <=> seen = {}
  /\ root # None => (root \in seen /\ root \in switches /\ \A d \in seen : root <= d)

\* C10 witness: a connected switch with a dpid below root's, and it has no Link.
C10_Witness ==
  /\ root # None
  /\ \E d \in switches : d < root /\ links[d] = <<>>

\* Does switch ls own the Link that the event (ls, lp, rs, rp) describes?
Discovered(ls, lp, rs, rp) ==
  \E k \in 1..Len(links[ls]) :
    LET x == linkObjs[links[ls][k]]
    IN x.port = lp /\ x.switch = rs /\ x.remote_port = rp

\* C11: processing a link-discovery event whose Link already exists creates
\* no Link, and leaves every list of Links, every active flag and root as
\* they were after the event was processed the first time.
C11_RediscoveryIdempotent ==
  [][\A ls, rs \in Dpids : \A lp, rp \in Ports :
       (Discovered(ls, lp, rs, rp) /\ LinkDiscoveryEvent(ls, lp, rs, rp))
         => (links' = links /\ linkObjs' = linkObjs /\ root' = root)]_vars

\* C11 witness: the state a repeated event ends in.  Among three cables, one
\* of them inactive, there is one whose event, processed once more, succeeds
\* and ends in this very state.
C11_Witness ==
  /\ err = "none"
  /\ Len(linkObjs) = 6
  /\ \E l \in LinkIds : ~linkObjs[l].active
  /\ \E l \in Edges :
       LET e  == linkObjs[l]
           a  == add_link(linkObjs, links, e.sw, e.port, e.switch, e.remote_port)
       IN /\ Discovered(e.sw, e.port, e.switch, e.remote_port)
          /\ e.sw # e.switch
          /\ a.objs = linkObjs /\ a.lks = links
          /\ NewRoot(root, e.sw, e.switch) = root
          /\ linkObjs \in rebuild_spanning_tree(a.objs, a.lks, root)

\* Hops from the switches of S, which are k hops from where the count began,
\* to switch b over known or over active links; Unreached if there is no path.
RECURSIVE HopsFrom(_, _, _, _, _)
HopsFrom(objs, S, b, use, k) ==
  IF b \in S THEN k
  ELSE LET T == S \cup {objs[l].switch : l \in
                         {j \in 1..Len(objs) : /\ objs[j].sw \in S
                                               /\ (use = "active" => objs[j].active)}}
       IN IF T = S THEN Unreached ELSE HopsFrom(objs, T, b, use, k + 1)

HopDist(objs, a, b, use) == HopsFrom(objs, {a}, b, use, 0)

\* The neighbours of x over active Links of x that are one hop closer to root.
Parents(x) ==
  {linkObjs[l].switch : l \in {j \in LinkIds :
      /\ linkObjs[j].sw = x
      /\ linkObjs[j].active
      /\ HopDist(linkObjs, root, linkObjs[j].switch, "known") + 1
           = HopDist(linkObjs, root, x, "known")}}

\* C12: for every switch of root's component, the active links lead to root
\* in as many hops as the shortest path over all known links has: every
\* active link joins two switches whose distances to root differ by one, and
\* every switch but root has active links to exactly one closer neighbour.
C12_ShortestPathTree ==
  root # None =>
    /\ \A x \in Component(linkObjs, root) :
         /\ HopDist(linkObjs, root, x, "active") = HopDist(linkObjs, root, x, "known")
         /\ x # root => Cardinality(Parents(x)) = 1
    /\ \A l \in LinkIds :
         (linkObjs[l].active /\ linkObjs[l].sw \in Component(linkObjs, root)) =>
           LET a == HopDist(linkObjs, root, linkObjs[l].sw, "known")
               b == HopDist(linkObjs, root, linkObjs[l].switch, "known")
           IN a = b + 1 \/ b = a + 1

\* C12 witness: a rebuild over a closed ring: a switch two hops from root, a
\* switch one hop from root, and a known link that is off the tree.
C12_Witness ==
  /\ root # None
  /\ \E x \in Component(linkObjs, root) : HopDist(linkObjs, root, x, "active") = 2
  /\ \E x \in Component(linkObjs, root) : HopDist(linkObjs, root, x, "active") = 1
  /\ \E l \in LinkIds : /\ ~linkObjs[l].active
                         /\ linkObjs[l].sw \in Component(linkObjs, root)
                         /\ linkObjs[l].sw # linkObjs[l].switch

\* The best links of the last rebuild: the Links from a switch of root's
\* component to its shortest-path predecessor, and their reverses.
BestLinks ==
  LET paths == Paths(linkObjs, links, root)
      up    == {l \in LinkIds : /\ linkObjs[l].sw \in DOMAIN paths
                                /\ paths[linkObjs[l].sw] # None
                                /\ linkObjs[l].switch = paths[linkObjs[l].sw]}
  IN up \cup {get_reverse(l) : l \in up}

\* C13: after a rebuild, a Link of a switch of root's component (root
\* included) that is neither a best link nor the reverse of one is inactive,
\* and so is its reverse.
C13_OffTreeLinksInactive ==
  root # None =>
    \A l \in LinkIds :
      (linkObjs[l].sw \in Component(linkObjs, root) /\ l \notin BestLinks)
        => (~linkObjs[l].active /\ ~linkObjs[get_reverse(l)].active)

\* C13 witness: the first cable ever discovered, which its own event made a
\* best link and activated, is off the tree and inactive now, while other
\* Links are active.
C13_Witness ==
  /\ root # None
  /\ Len(linkObjs) >= 2
  /\ linkObjs[1].sw # linkObjs[1].switch
  /\ linkObjs[1].sw \in Component(linkObjs, root)
  /\ 1 \notin BestLinks
  /\ ~linkObjs[1].active /\ ~linkObjs[2].active
  /\ \E l \in LinkIds : linkObjs[l].active

\* The Links of x, in the order they were discovered, that lead to a
\* neighbour one hop closer to root than x.
CloserLinks(x) ==
  SelectSeq(links[x],
    LAMBDA l : HopDist(linkObjs, root, linkObjs[l].switch, "known") + 1
                 = HopDist(linkObjs, root, x, "known"))

C15_RootNeverIncreases ==
  [][/\ root # None => (root' # None /\ root' <= root)
     /\ nteach' # nteach => root' = root
     /\ err' = "Exception" => root' = root]_vars

\* C15 witness: root is below both ends of the first cable discovered, whose
\* event had made the smaller of them root; a packet-source event has been
\* processed, and the last link-discovery event failed.
C15_Witness ==
  /\ root # None
  /\ Len(linkObjs) >= 2
  /\ root < linkObjs[1].sw /\ root < linkObjs[1].switch
  /\ nteach = 1
  /\ err = "Exception"

\* C16: an unknown-packet-source event for (s, m, p) adds and removes no
\* Link, changes no active flag and leaves root alone; the MAC-table entries
\* it writes are entries for m, on switches that active links join to s.
C16_TeachWritesOnlyTables ==
  [][\A s \in Dpids : \A m \in Macs : \A p \in InPorts :
       (nteach' # nteach /\ UnknownPacketSourceEvent(s, m, p)) =>
         /\ linkObjs' = linkObjs /\ links' = links
         /\ root' = root /\ switches' = switches
         /\ \A d \in RingDpids : \A n \in Macs :
              mac_table'[d][n] # mac_table[d][n]
                => (n = m /\ d \in ActiveReach(linkObjs, s))]_vars

\* C16 witness: one event has taught a MAC to two switches or more; a switch
\* that has a Link, an inactive one, has no entry for it; root is set and
\* some Links are active.
C16_Witness ==
  /\ nteach = 1 /\ err = "none"
  /\ root # None
  /\ \E l \in LinkIds : linkObjs[l].active
  /\ \E m \in Macs :
       /\ Cardinality({d \in switches : mac_table[d][m] # None}) >= 2
       /\ \E l \in LinkIds : ~linkObjs[l].active /\ mac_table[linkObjs[l].sw][m] = None
       /\ \A n \in Macs \ {m} : \A d \in switches : mac_table[d][n] = None

\* C17: after an unknown-packet-source event for (s, m, p) is processed, the
\* table of s maps m to p, whether p is a host port or a port with a Link.
C17_SwitchLearnsInPort ==
  [][\A s \in Dpids : \A m \in Macs : \A p \in InPorts :
       (nteach' # nteach /\ UnknownPacketSourceEvent(s, m, p))
         => mac_table'[s][m] = p]_vars

\* C17 for the events whose teaching returns.
C17_SwitchLearnsInPortIfReturns ==
  [][\A s \in Dpids : \A m \in Macs : \A p \in InPorts :
       (nteach' # nteach /\ err' = "none" /\ UnknownPacketSourceEvent(s, m, p))
         => mac_table'[s][m] = p]_vars

\* The undirected edges that are active.
ActiveEdges == {l \in Edges : EdgeActive(linkObjs, l)}

\* C18: the active links of the whole topology are acyclic: every set of
\* switches that active links hold together, in root's component or in any
\* other, has one active edge fewer than it has switches.
C18_ActiveLinksAcyclicEverywhere ==
  \A d \in RingDpids :
    LET C == ActiveReach(linkObjs, d)
    IN Cardinality({l \in ActiveEdges : linkObjs[l].sw \in C}) = Cardinality(C) - 1

\* C19: a link-discovery event, its rebuild included, changes no MAC table,
\* whether it succeeds or fails: a step that changes a MAC table is not the
\* step of any link-discovery event.
C19_LinkEventKeepsTables ==
  [][mac_table' # mac_table =>
       \A ls, rs \in Dpids : \A lp, rp \in Ports :
         ~LinkDiscoveryEvent(ls, lp, rs, rp)]_vars

\* C19 witness: a switch s learned a MAC on its host port and its neighbour
\* learned it over the cable between them; a later rebuild has deactivated
\* that cable, and the neighbour's entry still names the cable's port.
C19_Witness ==
  /\ nteach = 1
  /\ \E l \in LinkIds : \E m \in Macs :
       /\ linkObjs[l].sw # linkObjs[l].switch
       /\ ~linkObjs[l].active
       /\ mac_table[linkObjs[l].switch][m] = NumPorts + 1
       /\ mac_table[linkObjs[l].sw][m] = linkObjs[l].port

TypeOK ==
  /\ switches \subseteq RingDpids
  /\ root \in RingDpids \cup {None}
  /\ \A l \in LinkIds : linkObjs[l].sw \in switches /\ linkObjs[l].switch \in switches

====
